---- MODULE Spec2Model ----
(***************************************************************************)
(* Model of arm/graphing/bandwidth_stats.py (class BandwidthStats): the    *)
(* bandwidth counters of the two directions (primary = read, secondary =   *)
(* written), their prepopulation from tor's state file, and the cached     *)
(* accounting status with its rate limited poll.                           *)
(*                                                                         *)
(* The base class graph_panel.GraphStats is not part of the sources at     *)
(* hand; its counters (_process_event, is_next_tick_redraw, the initial    *)
(* values) are modelled from the written specification of the sample       *)
(* store.                                                                  *)
(***************************************************************************)
EXTENDS Integers, Sequences, FiniteSets, TLC

VARIABLES
  intervals,         \* CONFIG['attr.graph.intervals'].values(), seconds per tier
  now,               \* time.time(), in seconds
  tick,              \* number of processed bandwidth events
  primary_counts,    \* tier index -> samples, newest first (read)
  secondary_counts,  \* tier index -> samples, newest first (written)
  primary_open,      \* tier index -> sum of the bucket still open (read)
  secondary_open,    \* tier index -> sum of the bucket still open (written)
  max_primary,       \* tier index -> running maximum (read)
  max_secondary,     \* tier index -> running maximum (written)
  last_primary,      \* most recent read value
  last_secondary,    \* most recent written value
  primary_total,     \* lifetime read total, KB
  secondary_total,   \* lifetime written total, KB
  accounting_stats,  \* None or the cached accounting status
  title_stats,       \* labels of the title
  show_accounting,   \* CONFIG['features.graph.bw.accounting.show']
  state_file,        \* what bandwidth_from_state() reads from tor's state file
  start_time,        \* time the totals count from
  paused,            \* None or the instance clone() made
  drawing,           \* progress of a draw() of the accounting lines
  ingested,          \* bytes of all bandwidth events so far (observation only)
  prepopulated,      \* number of prepopulate_from_state calls (observation only)
  last_poll,         \* time of the latest accounting poll's fetch (observation only)
  call               \* what the last handler did (observation only)

vars == <<intervals, now, tick, primary_counts, secondary_counts,
          primary_open, secondary_open, max_primary, max_secondary,
          last_primary, last_secondary, primary_total, secondary_total,
          accounting_stats, title_stats, show_accounting, state_file,
          start_time, paused, drawing, ingested, prepopulated, last_poll, call>>

storeVars == <<primary_counts, secondary_counts, primary_open, secondary_open,
               max_primary, max_secondary, last_primary, last_secondary,
               primary_total, secondary_total, tick>>

----------------------------------------------------------------------------
(* Bounds of the model *)

max_column == 2

MaxTick == 2

MaxTime == 10

MaxEntries == 2

MaxPrepopulate == 2

MaxPollTick == 4

(* Program constants *)

ACCOUNTING_RATE == 5

STATE_INTERVAL == 900

BYTES_PER_KB == 1024

None == "None"

NoPoll == 0 - 1

----------------------------------------------------------------------------
(* Input sets *)

\* interval configurations: with the 15 minute tier last, first, or missing
IntervalConfigs == { <<1, 900>>, <<900, 2>>, <<1, 2>> }

\* values of the state file's history entries
EntryValues == {1, 3}

\* BWHistory*Values of the state file: sequences of at most MaxEntries values
EntrySeqs == UNION { [1..n -> EntryValues] : n \in 0..MaxEntries }

\* time.time() - last_read_time of the state file: in the future by more and
\* by less than one interval, a bit more than one interval ago, three intervals
ReadGaps == {-1000, -450, 1000, 2700}

\* time.time() - last_write_time of the state file
WriteGaps == {-450, 1000}

\* (event.read, event.written) of a BW event, in bytes
EventBytes == { <<0, 0>>, <<5120, 3072>> }

\* stem.control.State, the event_type of a status listener
States == {"INIT", "RESET", "CLOSED"}

\* fingerprints: ours (or None when tor does not tell) and the event's relays
Fingerprints == {None, "A"}

RelaySets == { {"A"}, {"B"} }

\* an optional value: the empty tuple for None, or a tuple holding the value
Some(x) == <<x>>

Absent == << >>

\* number of BW events processed before the first modelled one: none, or two
\* short of the first 15 minute bucket
TickStarts == {0, STATE_INTERVAL - 2}

----------------------------------------------------------------------------
(* Python built-ins as used by the code *)

Min2(a, b) == IF a <= b THEN a ELSE b

Max2(a, b) == IF a >= b THEN a ELSE b

SetMax(S) == CHOOSE x \in S : \A y \in S : y <= x

\* int(a / b) of a float quotient, b > 0: truncates towards zero
PyIntDiv(a, b) == IF a >= 0 THEN a \div b ELSE -((-a) \div b)

\* [v] * n: the empty list when n <= 0
PyRepeat(v, n) == IF n <= 0 THEN << >> ELSE [i \in 1..n |-> v]

\* s[k:]
PySliceFrom(s, k) ==
  LET start == IF k >= 0 THEN Min2(k, Len(s)) ELSE Max2(Len(s) + k, 0)
  IN  SubSeq(s, start + 1, Len(s))

\* del s[k:], k >= 0
PyDelFrom(s, k) == SubSeq(s, 1, Min2(k, Len(s)))

\* s.insert(0, v)
PyInsertFront(s, v) == <<v>> \o s

\* a last element that falls back to 0 instead of raising
PyLastOrZero(s) == IF s = << >> THEN <<0>> ELSE <<s[Len(s)]>>

\* s[-1]: the empty tuple stands for the IndexError of an empty list
PyLast(s) == IF s = << >> THEN << >> ELSE <<s[Len(s)]>>

\* max(d) of a mapping d: the largest key
PyMaxOfMapping(d) == SetMax(DOMAIN d)

----------------------------------------------------------------------------
(* graph_panel.GraphStats: the counters of the two directions *)

Tiers == 0 .. (Len(intervals) - 1)

Timescale(i) == intervals[i + 1]

Zeros(n) == [i \in 1..n |-> 0]

\* the counters after n BW events that carried no traffic
IdleCounts(ivs, n) ==
  [i \in 0 .. (Len(ivs) - 1) |-> Zeros(Min2(n \div ivs[i + 1], max_column + 1))]

\* one direction of GraphStats._process_event: every tier accumulates the
\* value; a tier whose window closes commits its bucket, keeps at most
\* max_column + 1 samples and raises its running maximum
RecordCounts(counts, open, value, t) ==
  [i \in DOMAIN counts |->
     IF t % Timescale(i) = 0
       THEN PyDelFrom(PyInsertFront(counts[i], open[i] + value), max_column + 1)
       ELSE counts[i]]

RecordOpen(open, value, t) ==
  [i \in DOMAIN open |-> IF t % Timescale(i) = 0 THEN 0 ELSE open[i] + value]

RecordMax(maxes, open, value, t) ==
  [i \in DOMAIN maxes |->
     IF i \in DOMAIN open /\ t % Timescale(i) = 0
       THEN Max2(maxes[i], open[i] + value)
       ELSE maxes[i]]

_process_event(primary, secondary) ==
  /\ last_primary' = primary
  /\ last_secondary' = secondary
  /\ primary_total' = primary_total + primary
  /\ secondary_total' = secondary_total + secondary
  /\ tick' = tick + 1
  /\ primary_counts' = RecordCounts(primary_counts, primary_open, primary, tick + 1)
  /\ secondary_counts' = RecordCounts(secondary_counts, secondary_open, secondary, tick + 1)
  /\ max_primary' = RecordMax(max_primary, primary_open, primary, tick + 1)
  /\ max_secondary' = RecordMax(max_secondary, secondary_open, secondary, tick + 1)
  /\ primary_open' = RecordOpen(primary_open, primary, tick + 1)
  /\ secondary_open' = RecordOpen(secondary_open, secondary, tick + 1)

----------------------------------------------------------------------------
(* BandwidthStats.prepopulate_from_state *)

\* counts the interval that has not ended yet
MissingEntriesRoundedUp(last_time) == PyIntDiv(now - last_time, STATE_INTERVAL) + 1

\* takes the distance to last_time, whichever comes first
MissingEntriesOfDistance(last_time) ==
  PyIntDiv(IF now >= last_time THEN now - last_time ELSE last_time - now, STATE_INTERVAL)

\* lines 110-111: number of 15 minute entries missing since the last one
MissingEntries(last_time) == PyIntDiv(now - last_time, STATE_INTERVAL)

\* lines 115-116: fills missing entries with the last value
FillMissing(entries, missing) ==
  entries \o PyRepeat(PyLast(entries)[1], missing)

\* line 120
EntryCount(read_filled, write_filled) ==
  Min2(Min2(Len(read_filled), Len(write_filled)), max_column)

\* crops the ending entries instead, entries[:entry_count]
CropEnd(entries, entry_count) == SubSeq(entries, 1, Min2(entry_count, Len(entries)))

\* lines 121-122: crops starting entries
CropStart(entries, entry_count) ==
  PySliceFrom(entries, Len(entries) - entry_count)

\* lines 126-132: position of the 15 minute interval, Len(intervals) if none
RECURSIVE IntervalIndexFrom(_)
IntervalIndexFrom(i) ==
  IF i >= Len(intervals) THEN i
  ELSE IF intervals[i + 1] = STATE_INTERVAL THEN i
  ELSE IntervalIndexFrom(i + 1)

\* finds the 15 minute interval without counting the intervals before it
IntervalIndexUncounted ==
  IF IntervalIndexFrom(0) >= Len(intervals) THEN Len(intervals) ELSE 0

IntervalIndex == IntervalIndexFrom(0)

\* puts the entries in front as they come, oldest first
InsertEntriesAsBlock(samples, entries, i) == entries \o samples

\* lines 136-142 for one direction: the loop's inserts into one tier
RECURSIVE InsertEntries(_, _, _)
InsertEntries(samples, entries, i) ==
  IF i > Len(entries) THEN samples
  ELSE InsertEntries(PyInsertFront(samples, entries[i]), entries, i + 1)

\* lines 144-145: max() of the mapping of all tiers
RecomputedMax(counts) == PyMaxOfMapping(counts)

\* keeps one sample too many
TruncateLate(samples) == PyDelFrom(samples, max_column + 2)

\* lines 147-148
Truncate(samples) == PyDelFrom(samples, max_column + 1)

prepopulate_from_state ==
  LET stats == state_file
      interval_index == IntervalIndex
  IN
  IF PyLast(stats.read_entries) = << >> \/ PyLast(stats.write_entries) = << >>
  THEN \* lines 115-116: [-1] of an empty list raises
       /\ call' = [op |-> "prepopulate_from_state", raised |-> "IndexError"]
       /\ UNCHANGED <<storeVars>>
  ELSE
  LET bw_read_filled == FillMissing(stats.read_entries, MissingEntries(stats.last_read_time))
      bw_write_filled == FillMissing(stats.write_entries, MissingEntries(stats.last_write_time))
      entry_count == EntryCount(bw_read_filled, bw_write_filled)
      bw_read_entries == CropStart(bw_read_filled, entry_count)
      bw_write_entries == CropStart(bw_write_filled, entry_count)
      locals == [read_filled |-> bw_read_filled, write_filled |-> bw_write_filled,
                 entry_count |-> entry_count,
                 read_entries |-> bw_read_entries, write_entries |-> bw_write_entries,
                 interval_index |-> interval_index]
  IN
  IF interval_index \in DOMAIN primary_counts
  THEN
    LET read_inserted == InsertEntries(primary_counts[interval_index], bw_read_entries, 1)
        write_inserted == InsertEntries(secondary_counts[interval_index], bw_write_entries, 1)
        counts_read == [primary_counts EXCEPT ![interval_index] = read_inserted]
        counts_write == [secondary_counts EXCEPT ![interval_index] = write_inserted]
    IN
    /\ last_primary' = IF entry_count > 0 THEN bw_read_entries[entry_count] ELSE last_primary
    /\ last_secondary' = IF entry_count > 0 THEN bw_write_entries[entry_count] ELSE last_secondary
    /\ max_primary' = [max_primary EXCEPT ![interval_index] = RecomputedMax(counts_read)]
    /\ max_secondary' = [max_secondary EXCEPT ![interval_index] = RecomputedMax(counts_write)]
    /\ primary_counts' = [counts_read EXCEPT ![interval_index] = Truncate(read_inserted)]
    /\ secondary_counts' = [counts_write EXCEPT ![interval_index] = Truncate(write_inserted)]
    /\ call' = [op |-> "prepopulate_from_state", raised |-> None, locals |-> locals,
                returned |-> now - Min2(stats.last_read_time, stats.last_write_time)]
    /\ UNCHANGED <<primary_open, secondary_open, primary_total, secondary_total, tick>>
  ELSE IF entry_count > 0
  THEN \* no 15 minute interval: line 139 runs, line 141 raises
    /\ last_primary' = bw_read_entries[1]
    /\ last_secondary' = bw_write_entries[1]
    /\ call' = [op |-> "prepopulate_from_state", raised |-> "KeyError", locals |-> locals]
    /\ UNCHANGED <<primary_counts, secondary_counts, primary_open, secondary_open,
                   max_primary, max_secondary, primary_total, secondary_total, tick>>
  ELSE \* no 15 minute interval, nothing to insert: lines 144-145 run, line 147 raises
    /\ max_primary' = [i \in DOMAIN max_primary \cup {interval_index} |->
                         IF i = interval_index THEN RecomputedMax(primary_counts) ELSE max_primary[i]]
    /\ max_secondary' = [i \in DOMAIN max_secondary \cup {interval_index} |->
                         IF i = interval_index THEN RecomputedMax(secondary_counts) ELSE max_secondary[i]]
    /\ call' = [op |-> "prepopulate_from_state", raised |-> "KeyError", locals |-> locals]
    /\ UNCHANGED <<primary_counts, secondary_counts, primary_open, secondary_open,
                   last_primary, last_secondary, primary_total, secondary_total, tick>>

----------------------------------------------------------------------------
(* Accounting status and title *)

\* tor_controller().get_accounting_stats(None): None when the query fails or
\* tor has no accounting, otherwise a status retrieved now
AccountingStats == [retrieved |-> now]

FetchResults == {Absent, Some(AccountingStats)}

\* bool(self._accounting_stats)
HasAccounting == accounting_stats # Absent

\* lines 251-281: the labels of the title; a rate of 0 stands for None, which
\* the code's tests do not tell apart
TitleStats(bw_rate, bw_burst, measured_bw, observed_bw) ==
  (IF bw_rate # 0 /\ bw_burst # 0
     THEN << <<"limit", bw_rate>>, <<"burst", bw_burst>> >> ELSE << >>)
  \o (IF measured_bw # 0 THEN << <<"measured", measured_bw>> >>
      ELSE IF observed_bw # 0 THEN << <<"observed", observed_bw>> >>
      ELSE << >>)

\* (bw_rate, bw_burst, measured_bw, observed_bw): nothing known, all known,
\* no rate and only an observed bandwidth, only a measured bandwidth
TitleInputs == { <<0, 0, 0, 0>>, <<1, 1, 1, 1>>, <<0, 1, 0, 1>>, <<0, 0, 1, 0>> }

\* refreshes the title on any descriptor event
NewTitleOfAnyRelay(is_alive, my_fingerprint, event, t) ==
  IF ~is_alive THEN title_stats ELSE TitleStats(t[1], t[2], t[3], t[4])

\* lines 242-281; event is Absent or holds the fingerprints of event.relays
NewTitle(is_alive, my_fingerprint, event, t) ==
  IF ~is_alive THEN title_stats
  ELSE IF event = Absent \/ (my_fingerprint # None /\ my_fingerprint \in event[1])
    THEN TitleStats(t[1], t[2], t[3], t[4])
    ELSE title_stats

new_desc_event(is_alive, my_fingerprint, event, t) ==
  /\ title_stats' = NewTitle(is_alive, my_fingerprint, event, t)
  /\ call' = [op |-> "new_desc_event", is_alive |-> is_alive,
              my_fingerprint |-> my_fingerprint, event |-> event]
  /\ UNCHANGED <<storeVars, accounting_stats, ingested, prepopulated, last_poll>>

\* keeps the cached status when the fetch yields nothing
ResetAccountingKeepingLast(event_type, is_accounting_enabled, fetched) ==
  IF event_type \in {"INIT", "RESET"} /\ show_accounting
     /\ is_accounting_enabled # HasAccounting /\ fetched # Absent
  THEN fetched
  ELSE accounting_stats

\* lines 85-89: the accounting status after a status event
ResetAccounting(event_type, is_accounting_enabled, fetched) ==
  IF event_type \in {"INIT", "RESET"} /\ show_accounting
     /\ is_accounting_enabled # HasAccounting
  THEN fetched
  ELSE accounting_stats

reset_listener(event_type, is_alive, t, is_accounting_enabled, fetched) ==
  /\ title_stats' = NewTitle(is_alive, None, Absent, t)
  /\ accounting_stats' = ResetAccounting(event_type, is_accounting_enabled, fetched)
  /\ call' = [op |-> "reset_listener", event_type |-> event_type, is_alive |-> is_alive,
              is_accounting_enabled |-> is_accounting_enabled,
              had_accounting |-> HasAccounting]
  /\ UNCHANGED <<storeVars, ingested, prepopulated, last_poll>>

\* polls on every redrawn tick
PollDueEveryRedraw(is_redraw) == HasAccounting /\ is_redraw

\* lines 153-154: whether this BW event polls the accounting status
PollDue(is_redraw) ==
  /\ HasAccounting
  /\ is_redraw
  /\ now - accounting_stats[1].retrieved >= ACCOUNTING_RATE

\* hands the byte counts on as they are
ToKBUnscaled(bytes) == bytes

\* event.read / 1024.0, for byte counts that are whole kilobytes
ToKB(bytes) == bytes \div BYTES_PER_KB

bandwidth_event(read, written, is_redraw, fetched) ==
  /\ accounting_stats' = IF PollDue(is_redraw) THEN fetched ELSE accounting_stats
  /\ last_poll' = IF PollDue(is_redraw) THEN now ELSE last_poll
  /\ _process_event(ToKB(read), ToKB(written))
  /\ ingested' = [ingested EXCEPT !.read = @ + read, !.written = @ + written]
  /\ call' = [op |-> "bandwidth_event", polled |-> PollDue(is_redraw),
              prev_poll |-> last_poll,
              fetched |-> IF PollDue(is_redraw) THEN fetched ELSE Absent]
  /\ UNCHANGED <<title_stats, prepopulated>>

----------------------------------------------------------------------------
(* Specifications *)

Snapshots ==
  [read_entries : EntrySeqs, write_entries : EntrySeqs,
   last_read_time : {0 - g : g \in ReadGaps}, last_write_time : {0 - g : g \in WriteGaps}]

\* get_info('traffic/read'), get_info('traffic/written'): None or a byte count
TrafficTotals == {Absent, Some(0), Some(5000)}

\* system.start_time(pid): None or the time tor started at
ProcessStarts == {Absent, Some(0 - 100)}

\* line 64: a byte count is a string and a string that is not empty is true,
\* '0' too; a start time is a float other than 0.0
SeedsFromTor(read_total, write_total, process_start) ==
  read_total # Absent /\ write_total # Absent /\ process_start # Absent

\* seeds the totals with the byte counts
TotalUnscaled(total) == total[1]

\* int(total) / 1024 of integers
TotalKB(total) == total[1] \div BYTES_PER_KB

\* lines 60-69: the start time an instance constructed now gets
StartTime(read_total, write_total, process_start) ==
  IF SeedsFromTor(read_total, write_total, process_start)
    THEN process_start[1] ELSE now

\* lines 60-69: the totals an instance constructed now gets
StartTotal(total, read_total, write_total, process_start) ==
  IF SeedsFromTor(read_total, write_total, process_start) THEN TotalKB(total) ELSE 0

\* lines 54-69
Constructed(read_total, write_total, process_start) ==
  /\ start_time = StartTime(read_total, write_total, process_start)
  /\ primary_total = StartTotal(read_total, read_total, write_total, process_start)
  /\ secondary_total = StartTotal(write_total, read_total, write_total, process_start)
  /\ ingested = [read |-> 0, written |-> 0,
                 primary_start |-> primary_total, secondary_start |-> secondary_total]
  /\ call = [op |-> "__init__", read_total |-> read_total, write_total |-> write_total,
             process_start |-> process_start, at |-> now]

\* no draw() under way
NotDrawing == [pc |-> "idle", seen |-> << >>]

\* the state after construction, or after TickStarts BW events without traffic
InitStats ==
  /\ intervals \in IntervalConfigs
  /\ now = 0
  /\ tick \in TickStarts
  /\ primary_counts = IdleCounts(intervals, tick)
  /\ secondary_counts = IdleCounts(intervals, tick)
  /\ primary_open = [i \in Tiers |-> 0]
  /\ secondary_open = [i \in Tiers |-> 0]
  /\ max_primary = [i \in Tiers |-> 0]
  /\ max_secondary = [i \in Tiers |-> 0]
  /\ last_primary = 0
  /\ last_secondary = 0
  /\ paused = Absent
  /\ drawing = NotDrawing
  /\ prepopulated = 0
  /\ last_poll = NoPoll

\* a tor without accounting, any state file
Init ==
  /\ InitStats
  /\ Constructed(Absent, Absent, Absent)
  /\ state_file \in Snapshots
  /\ show_accounting = TRUE
  /\ accounting_stats = Absent
  /\ title_stats = << >>

\* any tor, a fixed state file
InitAccounting ==
  /\ InitStats
  /\ Constructed(Absent, Absent, Absent)
  /\ intervals = <<1, 900>>
  /\ tick = 0
  /\ state_file = [read_entries |-> <<1>>, write_entries |-> <<1>>,
                   last_read_time |-> 0, last_write_time |-> 0]
  /\ show_accounting \in BOOLEAN
  /\ accounting_stats \in FetchResults
  /\ \E is_alive \in BOOLEAN, t \in TitleInputs :
        title_stats = IF is_alive THEN TitleStats(t[1], t[2], t[3], t[4]) ELSE << >>

EnvUnchanged == UNCHANGED <<intervals, now, show_accounting, state_file>>

\* what a handler of the live instance leaves alone
InstanceUnchanged == UNCHANGED <<start_time, paused, drawing>>

Prepopulate ==
  /\ prepopulated < MaxPrepopulate
  /\ prepopulated' = prepopulated + 1
  /\ prepopulate_from_state
  /\ UNCHANGED <<accounting_stats, title_stats, ingested, last_poll>>
  /\ InstanceUnchanged
  /\ EnvUnchanged

BandwidthEvent ==
  /\ \E s \in TickStarts : tick - s \in 0 .. (MaxTick - 1)
  /\ \E e \in EventBytes, is_redraw \in BOOLEAN :
        \E fetched \in IF PollDue(is_redraw) THEN FetchResults ELSE {Absent} :
           bandwidth_event(e[1], e[2], is_redraw, fetched)
  /\ InstanceUnchanged
  /\ EnvUnchanged

QuietBandwidthEvent ==
  /\ tick < MaxPollTick
  /\ \E is_redraw \in BOOLEAN :
        \E fetched \in IF PollDue(is_redraw) THEN FetchResults ELSE {Absent} :
           bandwidth_event(0, 0, is_redraw, fetched)
  /\ InstanceUnchanged
  /\ EnvUnchanged

ResetListener ==
  /\ \E event_type \in States, is_alive \in BOOLEAN, t \in TitleInputs,
        is_accounting_enabled \in BOOLEAN, fetched \in FetchResults :
        /\ ~is_alive => ~is_accounting_enabled
        /\ ~is_accounting_enabled => fetched = Absent
        /\ reset_listener(event_type, is_alive, t, is_accounting_enabled, fetched)
  /\ InstanceUnchanged
  /\ EnvUnchanged

NewDescEvent ==
  /\ \E is_alive \in BOOLEAN, fp \in Fingerprints, relays \in RelaySets, t \in TitleInputs :
        new_desc_event(is_alive, fp, Some(relays), t)
  /\ InstanceUnchanged
  /\ EnvUnchanged

TimePasses ==
  /\ now < MaxTime
  /\ now' = now + 1
  /\ call' = [op |-> "time"]
  /\ UNCHANGED <<storeVars, accounting_stats, title_stats, prepopulated, last_poll,
                 intervals, show_accounting, state_file, ingested>>
  /\ InstanceUnchanged

\* lines 71-78: BandwidthStats(True) sets the copy's start time and totals
\* as a construction at this moment does, lines 75-76 hand over the accounting
\* status and the title, GraphStats.clone the counters and totals
clone(read_total, write_total, process_start) ==
  /\ paused' = Some([start_time |-> StartTime(read_total, write_total, process_start),
                     accounting_stats |-> accounting_stats,
                     title_stats |-> title_stats,
                     primary_total |-> primary_total,
                     secondary_total |-> secondary_total,
                     last_primary |-> last_primary,
                     last_secondary |-> last_secondary,
                     primary_counts |-> primary_counts,
                     secondary_counts |-> secondary_counts])
  /\ call' = [op |-> "clone", at |-> now]
  /\ UNCHANGED <<storeVars, accounting_stats, title_stats, start_time, drawing,
                 ingested, prepopulated, last_poll>>

Clone ==
  /\ paused = Absent
  /\ \E read_total \in TrafficTotals, write_total \in TrafficTotals,
        process_start \in ProcessStarts :
        clone(read_total, write_total, process_start)
  /\ EnvUnchanged

\* lines 183-195: the places where draw() reads self._accounting_stats, in
\* order: the test of line 183, then one read per attribute it prints
DrawReads == <<"183", "185", "189", "192", "194 read_bytes", "194 read_limit",
               "195 written_bytes", "195 write_limit">>

DrawPosition(pc) == CHOOSE i \in DOMAIN DrawReads : DrawReads[i] = pc

\* one read of self._accounting_stats by draw(), drawing.pc being the read
\* that comes next; readers and the handlers that replace the status take
\* turns between any two reads
draw_read(is_alive) ==
  LET at == IF drawing.pc \in {"idle", "done", "raised"} THEN 1
            ELSE DrawPosition(drawing.pc)
  IN
  /\ drawing' =
       IF at = 1
         THEN \* line 183: nothing to draw without a status; line 184: nor
              \* the status of a tor that is not alive
              IF accounting_stats = Absent \/ ~is_alive
                THEN [pc |-> "done", seen |-> << >>]
                ELSE [pc |-> DrawReads[2], seen |-> << >>]
         ELSE IF accounting_stats = Absent
           THEN \* an attribute of None
                [pc |-> "raised", seen |-> drawing.seen]
           ELSE [pc |-> IF at = Len(DrawReads) THEN "done" ELSE DrawReads[at + 1],
                 seen |-> drawing.seen \o <<accounting_stats[1]>>]
  /\ UNCHANGED <<storeVars, accounting_stats, title_stats, start_time, paused,
                 ingested, prepopulated, last_poll, call>>

Draw ==
  /\ \E is_alive \in BOOLEAN : draw_read(is_alive)
  /\ EnvUnchanged

Next == Prepopulate \/ BandwidthEvent

Spec == Init /\ [][Next]_vars

\* any construction, a tor with or without accounting, a fixed state file
InitEngine ==
  /\ InitStats
  /\ \E read_total \in TrafficTotals, write_total \in TrafficTotals,
        process_start \in ProcessStarts :
        Constructed(read_total, write_total, process_start)
  /\ intervals = <<1, 900>>
  /\ tick = 0
  /\ state_file = [read_entries |-> <<1, 3>>, write_entries |-> <<3>>,
                   last_read_time |-> 0 - 1000, last_write_time |-> 450]
  /\ show_accounting = TRUE
  /\ accounting_stats \in FetchResults
  /\ title_stats = << >>

NextEngine == BandwidthEvent \/ Prepopulate \/ TimePasses

SpecEngine == InitEngine /\ [][NextEngine]_vars

NextClone == BandwidthEvent \/ Clone \/ TimePasses

SpecClone == InitEngine /\ [][NextClone]_vars

\* a tor with or without accounting, drawn while bandwidth events arrive
InitDraw ==
  /\ InitStats
  /\ Constructed(Absent, Absent, Absent)
  /\ intervals = <<1, 900>>
  /\ tick = 0
  /\ state_file = [read_entries |-> <<1>>, write_entries |-> <<1>>,
                   last_read_time |-> 0, last_write_time |-> 0]
  /\ show_accounting = TRUE
  /\ accounting_stats \in FetchResults
  /\ title_stats = << >>

NextDraw == Draw \/ QuietBandwidthEvent \/ TimePasses

SpecDraw == InitDraw /\ [][NextDraw]_vars

NextAccounting == QuietBandwidthEvent \/ ResetListener \/ NewDescEvent \/ TimePasses

SpecAccounting == InitAccounting /\ [][NextAccounting]_vars

----------------------------------------------------------------------------
(* Properties *)

SeqMax(s) == SetMax({ s[i] : i \in DOMAIN s })

Count(s, v) == Cardinality({ i \in DOMAIN s : s[i] = v })

SameBag(s, t) == \A v \in { s[i] : i \in DOMAIN s } \cup { t[i] : i \in DOMAIN t } :
                    Count(s, v) = Count(t, v)

LastN(s, n) == SubSeq(s, Len(s) - n + 1, Len(s))

\* the last handler was prepopulate_from_state and it got past the state
\* file's entries (lines 115-116)
Prepopulated == call.op = "prepopulate_from_state" /\ call.raised # "IndexError"

\* ... and it ran to its end
PrepopulateDone == call.op = "prepopulate_from_state" /\ call.raised = None

\* C1: in both directions every tier holds at most max_column + 1 samples,
\* after every bandwidth event and every prepopulation.
C1_BoundedHistory ==
  /\ \A i \in DOMAIN primary_counts : Len(primary_counts[i]) <= max_column + 1
  /\ \A i \in DOMAIN secondary_counts : Len(secondary_counts[i]) <= max_column + 1

\* a second prepopulation inserted max_column entries on top of max_column
\* earlier ones, and the tier was cut back to max_column + 1
C1_Witness ==
  /\ PrepopulateDone
  /\ prepopulated = 2
  /\ call.locals.entry_count = max_column
  /\ Len(primary_counts[IntervalIndex]) = max_column + 1
  /\ Len(secondary_counts[IntervalIndex]) = max_column + 1

\* C2: after a prepopulation that ran to its end, the running maximum of the
\* 15 minute tier is the largest sample of that tier's (truncated) history,
\* in both directions.
C2_MaxIsHistoryMax ==
  PrepopulateDone /\ call.locals.entry_count > 0 =>
    /\ max_primary[IntervalIndex] = SeqMax(primary_counts[IntervalIndex])
    /\ max_secondary[IntervalIndex] = SeqMax(secondary_counts[IntervalIndex])

\* C3: no bandwidth event and no prepopulation lowers the running maximum of
\* any tier, in either direction.
C3_MaxNeverDecreases ==
  [][ /\ \A i \in DOMAIN max_primary \cap DOMAIN max_primary' :
            max_primary'[i] >= max_primary[i]
      /\ \A i \in DOMAIN max_secondary \cap DOMAIN max_secondary' :
            max_secondary'[i] >= max_secondary[i] ]_vars

\* C4: a prepopulation that finds the 15 minute tier inserts entry_count =
\* min(len(filled read entries), len(filled write entries), max_column)
\* entries into that tier of each direction: the samples in front of the
\* earlier ones are the last entry_count filled entries, and both directions
\* hold equally many samples afterwards.
C4_AlignedInsert ==
  [][ PrepopulateDone' =>
        LET L == call'.locals
            n == Min2(Min2(Len(L.read_filled), Len(L.write_filled)), max_column)
            idx == L.interval_index
            keep == Min2(Len(primary_counts[idx]), max_column + 1 - n)
        IN /\ L.entry_count = n
           /\ Len(primary_counts'[idx]) = Min2(Len(primary_counts[idx]) + n, max_column + 1)
           /\ SameBag(SubSeq(primary_counts'[idx], 1, n), LastN(L.read_filled, n))
           /\ SameBag(SubSeq(secondary_counts'[idx], 1, n), LastN(L.write_filled, n))
           /\ SubSeq(primary_counts'[idx], n + 1, n + keep) = SubSeq(primary_counts[idx], 1, keep)
           /\ SubSeq(secondary_counts'[idx], n + 1, n + keep) = SubSeq(secondary_counts[idx], 1, keep)
           /\ Len(primary_counts'[idx]) = Len(secondary_counts'[idx]) ]_vars

\* the filled sequences differ in length and the longer one lost its oldest
\* entries
C4_Witness ==
  /\ PrepopulateDone
  /\ call.locals.entry_count > 0
  /\ Len(call.locals.read_filled) > call.locals.entry_count
  /\ Len(call.locals.write_filled) = call.locals.entry_count
  /\ call.locals.read_filled[1] # call.locals.read_entries[1]

\* the entries a direction's sequence was extended by
Appended(entries, filled) == SubSeq(filled, Len(entries) + 1, Len(filled))

FilledAsClaimed(entries, filled, last_time) ==
  /\ SubSeq(filled, 1, Len(entries)) = entries
  /\ Len(filled) = Len(entries) + Max2(0, (now - last_time) \div STATE_INTERVAL)
  /\ \A i \in DOMAIN Appended(entries, filled) :
        Appended(entries, filled)[i] = entries[Len(entries)]

\* C5: each direction's sequence is extended, independently of the other, by
\* floor((now - last_time) / 900) copies of its last entry (none when that is
\* negative) before the sequences are cropped.
C5_MissingEntriesFilled ==
  Prepopulated =>
    /\ FilledAsClaimed(state_file.read_entries, call.locals.read_filled,
                       state_file.last_read_time)
    /\ FilledAsClaimed(state_file.write_entries, call.locals.write_filled,
                       state_file.last_write_time)

\* 45 minutes since the last read entry: three copies; the write entries of
\* the same state file got a different number
C5_Witness ==
  /\ PrepopulateDone
  /\ now - state_file.last_read_time = 2700
  /\ Len(call.locals.read_filled) = Len(state_file.read_entries) + 3
  /\ Len(call.locals.write_filled) = Len(state_file.write_entries) + 1

\* C6: a direction whose last_time lies in the future, by whatever amount, gets
\* no entry appended and loses none before the sequences are cropped.
C6_FutureIsZeroMissing ==
  Prepopulated =>
    /\ now - state_file.last_read_time < 0 =>
          call.locals.read_filled = state_file.read_entries
    /\ now - state_file.last_write_time < 0 =>
          call.locals.write_filled = state_file.write_entries

\* a last read time more than one interval in the future
C6_Witness ==
  /\ PrepopulateDone
  /\ now - state_file.last_read_time < 0 - STATE_INTERVAL
  /\ Len(state_file.read_entries) = MaxEntries
  /\ call.locals.read_filled = state_file.read_entries

C8_NoTierIsNoOp ==
  [][ call'.op = "prepopulate_from_state"
      /\ state_file.read_entries # << >> /\ state_file.write_entries # << >>
      /\ IntervalIndex \notin Tiers
      => /\ call'.raised = None
         /\ UNCHANGED <<primary_counts, secondary_counts, max_primary, max_secondary,
                        last_primary, last_secondary>> ]_vars

\* C9: a bandwidth event fetches the accounting status only when the cached
\* one is at least ACCOUNTING_RATE seconds old, and two consecutive polls'
\* fetches are at least ACCOUNTING_RATE seconds apart.
C9_PollRateLimited ==
  [][ call'.op = "bandwidth_event" /\ call'.polled =>
        /\ HasAccounting
        /\ now - accounting_stats[1].retrieved >= ACCOUNTING_RATE
        /\ last_poll # NoPoll => now - last_poll >= ACCOUNTING_RATE ]_vars

\* a second poll fetched
C9_Witness ==
  /\ call.op = "bandwidth_event"
  /\ call.polled
  /\ call.prev_poll # NoPoll
  /\ last_poll = now

\* C10: a poll whose fetch yields nothing keeps the cached status.
C10_FailedPollKeepsStatus ==
  [][ call'.op = "bandwidth_event" /\ call'.polled /\ call'.fetched = Absent
      => accounting_stats' = accounting_stats ]_vars

\* the step is a status event that looks at tor's accounting (line 85)
LooksAtAccounting ==
  /\ call'.op = "reset_listener"
  /\ call'.event_type \in {"INIT", "RESET"}
  /\ show_accounting

\* C11: a status event that finds accounting off while a status is cached
\* leaves no status behind, and a missing status stays missing until a
\* status event finds accounting on: no bandwidth event and no descriptor
\* event brings one back.
C11_DisabledClearsStatus ==
  [][ /\ LooksAtAccounting /\ ~call'.is_accounting_enabled /\ HasAccounting
         => accounting_stats' = Absent
      /\ ~HasAccounting /\ accounting_stats' # Absent
         => LooksAtAccounting /\ call'.is_accounting_enabled ]_vars

\* a RESET of a live tor found accounting off and dropped the cached status
C11_Witness ==
  /\ call.op = "reset_listener"
  /\ call.event_type = "RESET"
  /\ call.is_alive
  /\ ~call.is_accounting_enabled
  /\ call.had_accounting
  /\ accounting_stats = Absent

\* C12: a status event or descriptor event handled while tor is not alive
\* leaves the title and the cached accounting status as they were.
C12_NotAliveKeepsAll ==
  [][ call'.op \in {"reset_listener", "new_desc_event"} /\ ~call'.is_alive
      => UNCHANGED <<title_stats, accounting_stats>> ]_vars

\* C13: a status appears only in a status event that finds accounting on,
\* disappears only in one that finds it off, and a bandwidth event neither
\* creates nor removes one.
C13_StatusLifecycle ==
  [][ /\ ~HasAccounting /\ accounting_stats' # Absent
         => LooksAtAccounting /\ call'.is_accounting_enabled
      /\ HasAccounting /\ accounting_stats' = Absent
         => LooksAtAccounting /\ ~call'.is_accounting_enabled
      /\ call'.op = "bandwidth_event"
         => (accounting_stats' = Absent) = (accounting_stats = Absent) ]_vars

\* the descriptor event of the step names relays, ours not among them
NamesOtherRelays ==
  /\ call'.event # Absent
  /\ call'.my_fingerprint \notin call'.event[1]

\* C19: a descriptor event changes nothing but the title, and not even the
\* title when its relays do not include our fingerprint.
C19_DescriptorChangesTitleOnly ==
  [][ call'.op = "new_desc_event" =>
        /\ UNCHANGED <<storeVars, start_time, accounting_stats>>
        /\ NamesOtherRelays => title_stats' = title_stats ]_vars

\* tor is alive and the event names another relay, while a title and an
\* accounting status are there to be kept
C19_Witness ==
  /\ call.op = "new_desc_event"
  /\ call.is_alive
  /\ call.my_fingerprint = "A"
  /\ call.event = Some({"B"})
  /\ title_stats # << >>
  /\ accounting_stats # Absent

\* the construction took tor's start time and totals (source a)
TookTorTotals ==
  call.read_total # Absent /\ call.write_total # Absent /\ call.process_start # Absent

\* C14: a construction takes tor's start time and tor's totals, in KB,
\* exactly when the start time and both totals are all there; otherwise the
\* start time is the time of the construction and both totals are zero.
C14_StartTimeAndTotals ==
  call.op = "__init__" =>
    IF TookTorTotals
      THEN /\ start_time = call.process_start[1]
           /\ primary_total = call.read_total[1] \div BYTES_PER_KB
           /\ secondary_total = call.write_total[1] \div BYTES_PER_KB
      ELSE /\ start_time = call.at
           /\ primary_total = 0
           /\ secondary_total = 0

\* tor told its start time, 5000 bytes read and 0 bytes written
C14_Witness ==
  /\ call.op = "__init__"
  /\ call.read_total = Some(5000)
  /\ call.write_total = Some(0)
  /\ call.process_start = Some(0 - 100)
  /\ start_time = 0 - 100
  /\ primary_total = 4
  /\ secondary_total = 0

\* C15: no step changes start_time, and the instance clone() makes has the
\* start_time of the instance it was made from.
C15_StartTimeImmutable ==
  [][ /\ start_time' = start_time
      /\ paused' # Absent => paused'[1].start_time = start_time' ]_vars

\* the bytes the bandwidth event of this step carried
EventRead == ingested'.read - ingested.read

EventWritten == ingested'.written - ingested.written

\* C16: every bandwidth event records its read and written bytes, in KB, once
\* on each direction, whatever the accounting poll of that tick does; from
\* zero totals on, the totals are the sums of all events' bytes in KB.
C16_IngestRecordsBoth ==
  [][ call'.op = "bandwidth_event" =>
        /\ tick' = tick + 1
        /\ last_primary' * BYTES_PER_KB = EventRead
        /\ last_secondary' * BYTES_PER_KB = EventWritten
        /\ (primary_total' - primary_total) * BYTES_PER_KB = EventRead
        /\ (secondary_total' - secondary_total) * BYTES_PER_KB = EventWritten
        /\ ingested.primary_start = 0 /\ ingested.secondary_start = 0 =>
              /\ primary_total' * BYTES_PER_KB = ingested'.read
              /\ secondary_total' * BYTES_PER_KB = ingested'.written ]_vars

\* the second event of 5120 and 3072 bytes, on a tick whose poll failed
C16_Witness ==
  /\ call.op = "bandwidth_event"
  /\ call.polled
  /\ call.fetched = Absent
  /\ ingested.primary_start = 0
  /\ last_primary = 5
  /\ last_secondary = 3
  /\ primary_total = 10
  /\ secondary_total = 6

\* C17: a draw() never reads an attribute of a status that is gone, and all
\* the attributes it reads come from one and the same status.
C17_DrawSeesOneStatus ==
  /\ drawing.pc # "raised"
  /\ \A i \in DOMAIN drawing.seen : drawing.seen[i] = drawing.seen[1]

\* C18: a prepopulation that inserts entries leaves the 15 minute tier newest
\* first: index k holds the entry k places before the last filled one, the
\* samples that were there before follow, and the last values are the
\* entries at index 0.
C18_NewestFirst ==
  [][ PrepopulateDone' /\ call'.locals.entry_count > 0 =>
        LET L == call'.locals
            n == L.entry_count
            idx == L.interval_index
            keep == Min2(Len(primary_counts[idx]), max_column + 1 - n)
        IN /\ \A k \in 0 .. (n - 1) :
                /\ primary_counts'[idx][k + 1] = L.read_filled[Len(L.read_filled) - k]
                /\ secondary_counts'[idx][k + 1] = L.write_filled[Len(L.write_filled) - k]
           /\ \A j \in 1 .. keep :
                /\ primary_counts'[idx][n + j] = primary_counts[idx][j]
                /\ secondary_counts'[idx][n + j] = secondary_counts[idx][j]
           /\ last_primary' = primary_counts'[idx][1]
           /\ last_secondary' = secondary_counts'[idx][1] ]_vars

\* a second prepopulation put two different entries in front of earlier ones
C18_Witness ==
  /\ PrepopulateDone
  /\ prepopulated = 2
  /\ call.locals.entry_count = 2
  /\ primary_counts[IntervalIndex][1] # primary_counts[IntervalIndex][2]
  /\ Len(primary_counts[IntervalIndex]) = max_column + 1
  /\ last_primary = primary_counts[IntervalIndex][1]

\* the tiers that are not the 15 minute one
OtherTiers == { i \in Tiers : intervals[i + 1] # STATE_INTERVAL }

\* C20: a prepopulation changes neither total, nor the start time, nor the
\* accounting status, nor the history or running maximum of any tier but the
\* 15 minute one.
C20_PrepopulateFrame ==
  [][ call'.op = "prepopulate_from_state" =>
        /\ UNCHANGED <<primary_total, secondary_total, start_time, accounting_stats>>
        /\ \A i \in OtherTiers :
              /\ primary_counts'[i] = primary_counts[i]
              /\ secondary_counts'[i] = secondary_counts[i]
              /\ max_primary'[i] = max_primary[i]
              /\ max_secondary'[i] = max_secondary[i] ]_vars

\* entries went into the 15 minute tier of an instance that has totals, a
\* sample in its other tier and an accounting status
C20_Witness ==
  /\ PrepopulateDone
  /\ call.locals.entry_count > 0
  /\ primary_counts[IntervalIndex] # << >>
  /\ primary_total > 0
  /\ max_primary[0] > 0
  /\ accounting_stats # Absent

====
